---------------------------- MODULE Spec2Model ----------------------------
(***************************************************************************)
(* Model of the dining-philosophers synchronisation code and of the         *)
(* leader-election wrapper:                                                 *)
(*   - BinarySemaphore (a mutex, a value v_ and a condition variable),      *)
(*   - PhilosophersSync (one mutex m_, the states_ vector, one semaphore    *)
(*     per philosopher),                                                    *)
(*   - the driver of DiningPhilosophersTest.Basic (one thread per           *)
(*     philosopher looping takeForks -> putForks, and a monitor polling     *)
(*     getStates), for as long as the run time lasts,                       *)
(*   - a two-thread harness on a single BinarySemaphore, after              *)
(*     BinarySemaphoreTest.Basic, each thread running a script of           *)
(*     acquire/release calls,                                               *)
(*   - a caller of the PhilosophersSync operations that keeps no order,     *)
(*   - LeaderElection (etcd_leader_election): the campaign goroutines, the  *)
(*     Close() calls and the etcd sessions of the instances on one prefix,  *)
(*   - StartLeaderElectionAsync from its call, with its deferred cleanup.   *)
(*                                                                          *)
(* Every region guarded by a semaphore's own mutex is one atomic step (the  *)
(* mutex is never held across a step; cv_.wait releases it atomically).     *)
(* The engine mutex m_ is explicit, and every statement executed under it   *)
(* is a step of its own.                                                    *)
(***************************************************************************)
EXTENDS Integers, Sequences, FiniteSets, TLC

\* Largest ring the driver is started with.
MaxN == 4
\* Largest ring the driver is started with under fair scheduling.
LiveN == 3
\* Longest script of a harness thread.
MaxOps == 4
\* Longest script of a harness thread under fair scheduling.
TestOps == 1
\* Largest constructor argument of the harness semaphore.
MaxCtorArg == 2
\* Largest ring constructed by a caller that keeps no order of calls.
ApiN == 3
\* The ring checked for starvation.
StarveN == 4
\* Largest ring with the monitor under fair scheduling.
LockN == 3
\* Most LeaderElection instances on the election prefix.
MaxInst == 2
\* Most threads calling Close() on one instance.
MaxClosers == 2

VARIABLES
  numPhils,     \* PhilosophersSync::numPhils_
  states,       \* PhilosophersSync::states_ : 0..numPhils-1 -> State
  m,            \* PhilosophersSync::m_ : <<>> when free, else the holder
  semV,         \* BinarySemaphore::v_ of each semaphore
  semWaiters,   \* threads blocked in cv_.wait of each semaphore
  pc,           \* position of each philosopher / harness thread
  immediate,    \* history: the running takeForks(i) promoted i itself
  blockers,     \* history: the neighbours that were EATING when the running
                \* takeForks(i) called tryToEat and have been EATING since
  monPc,        \* position of the monitor loop
  st,           \* the vector getStates returned to the monitor (<<>>: none)
  script,       \* harness: the calls each thread makes, in order
  ip,           \* harness: index of the next call of each thread
  ctorArg,      \* harness: the constructor argument of the semaphore
  relSinceAcq,  \* harness history: v_ was set by release() after the last
                \* return of an acquire()
  earlierKeys,  \* etcd: for each instance, the instances whose election key
                \* exists and was created before its own (lower revision)
  liveKeys,     \* etcd: the instances whose election key exists
  leaseAlive,   \* etcd: the lease of each instance's session is alive
  sessionDone,  \* etcdSession.Done() of each instance is closed
  leaderSession,  \* etcdElection of each instance holds a key to resign
  isClosed,     \* LeaderElection.isClosed
  campaignCancelled,    \* cancelCampaign() has been called
  dontCloseEtcdClient,  \* LeaderElection.dontCloseEtcdClient
  clientClosed, \* etcdClient.Close() has been called
  BecomeLeaderCh,  \* number of values in the buffer of BecomeLeaderCh
  AnyErrorCh,   \* number of values in the buffer of AnyErrorCh
  gopc,         \* position of each instance's campaign goroutine
  closePc,      \* position of each thread that may call Close()
  startPc,      \* position of each call of StartLeaderElectionAsync
  toClose,      \* StartLeaderElectionAsync: its slice toClose
  configClient  \* Config.EtcdClient of each call is not nil

vars == <<numPhils, states, m, semV, semWaiters, pc, immediate, blockers,
          monPc, st,
          script, ip, ctorArg, relSinceAcq,
          earlierKeys, liveKeys, leaseAlive, sessionDone, leaderSession,
          isClosed, campaignCancelled, dontCloseEtcdClient, clientClosed,
          BecomeLeaderCh, AnyErrorCh, gopc, closePc,
          startPc, toClose, configClient>>

engineVars == <<numPhils, states, m, immediate, blockers, monPc, st>>
harnessVars == <<script, ip, ctorArg, relSinceAcq>>
etcdVars == <<earlierKeys, liveKeys, leaseAlive, sessionDone>>
startVars == <<startPc, toClose, configClient>>
electionVars == <<etcdVars, leaderSession, isClosed, campaignCancelled,
                  dontCloseEtcdClient, clientClosed, BecomeLeaderCh,
                  AnyErrorCh, gopc, closePc, startVars>>

\* no leader election runs
ElectionOff ==
  /\ earlierKeys = <<>>
  /\ liveKeys = {}
  /\ leaseAlive = <<>>
  /\ sessionDone = <<>>
  /\ leaderSession = <<>>
  /\ isClosed = <<>>
  /\ campaignCancelled = <<>>
  /\ dontCloseEtcdClient = <<>>
  /\ clientClosed = <<>>
  /\ BecomeLeaderCh = <<>>
  /\ AnyErrorCh = <<>>
  /\ gopc = <<>>
  /\ closePc = <<>>
  /\ startPc = <<>>
  /\ toClose = <<>>
  /\ configClient = <<>>

THINKING == "THINKING"
HUNGRY == "HUNGRY"
EATING == "EATING"
State == {THINKING, HUNGRY, EATING}

Phils == 0 .. (numPhils - 1)
Left(i) == (i + numPhils - 1) % numPhils
Right(i) == (i + 1) % numPhils

Free == <<>>
ByPhil(i) == <<"phil", i>>
ByMonitor == <<"monitor">>

-----------------------------------------------------------------------------
(* BinarySemaphore *)

\* BinarySemaphore(size_t v): v_ = min(1, max(0, v))
Min(a, b) == IF a < b THEN a ELSE b
Max(a, b) == IF a > b THEN a ELSE b
SemInit(v) == Min(1, Max(0, v))

\* a release() that counts permits: ++v_
SemReleaseCounting(v) == v + 1

\* release(), the part under m_: v_ = 1
SemReleaseValue(v) == 1

SemReleaseSet(t, g, to) ==
  /\ semV' = [semV EXCEPT ![g] = SemReleaseValue(semV[g])]
  /\ pc' = [pc EXCEPT ![t] = to]
  /\ UNCHANGED semWaiters

\* a release() without its cv_.notify_one()
NotifyNobody(g) == {}

\* cv_.notify_one(): the threads one of which is woken (none: nobody waits)
NotifyTargets(g) == semWaiters[g]

\* release(), after the unlock: cv_.notify_one()
SemReleaseNotify(t, g, to) ==
  /\ \/ /\ NotifyTargets(g) = {}
        /\ pc' = [pc EXCEPT ![t] = to]
        /\ UNCHANGED semWaiters
     \/ \E w \in NotifyTargets(g) :
          /\ semWaiters' = [semWaiters EXCEPT ![g] = @ \ {w}]
          /\ pc' = [pc EXCEPT ![t] = to, ![w] = "acq_woken"]
  /\ UNCHANGED semV

\* acquire(), `if (v_ == 1) { v_ = 0; }`: the value the fast path leaves
SemFastValue(v) == 0
\* acquire(), the return out of cv_.wait(lg, pred): the value it leaves
SemSlowValue(v) == v
\* the predicate of cv_.wait
SemPred(v) == v = 1

\* acquire() from its call: lock, test v_, either take it or start waiting
SemAcquireEnter(t, g, ret) ==
  /\ pc[t] = "acq"
  /\ IF semV[g] = 1
       THEN /\ semV' = [semV EXCEPT ![g] = SemFastValue(semV[g])]
            /\ pc' = [pc EXCEPT ![t] = ret]
            /\ UNCHANGED semWaiters
       ELSE IF SemPred(semV[g])
         THEN /\ semV' = [semV EXCEPT ![g] = SemSlowValue(semV[g])]
              /\ pc' = [pc EXCEPT ![t] = ret]
              /\ UNCHANGED semWaiters
         ELSE /\ semWaiters' = [semWaiters EXCEPT ![g] = @ \cup {t}]
              /\ pc' = [pc EXCEPT ![t] = "acq_wait"]
              /\ UNCHANGED semV

\* a wait may end without a notify (spurious wakeup)
SemSpuriousWake(t, g) ==
  /\ pc[t] = "acq_wait"
  /\ t \in semWaiters[g]
  /\ semWaiters' = [semWaiters EXCEPT ![g] = @ \ {t}]
  /\ pc' = [pc EXCEPT ![t] = "acq_woken"]
  /\ UNCHANGED semV

\* the woken thread relocks and tests the predicate again
SemAcquireRecheck(t, g, ret) ==
  /\ pc[t] = "acq_woken"
  /\ IF SemPred(semV[g])
       THEN /\ semV' = [semV EXCEPT ![g] = SemSlowValue(semV[g])]
            /\ pc' = [pc EXCEPT ![t] = ret]
            /\ UNCHANGED semWaiters
       ELSE /\ semWaiters' = [semWaiters EXCEPT ![g] = @ \cup {t}]
            /\ pc' = [pc EXCEPT ![t] = "acq_wait"]
            /\ UNCHANGED semV

-----------------------------------------------------------------------------
(* PhilosophersSync *)

\* tryToEat(pid) without the test of the right neighbour
CanEatIgnoringRight(s, pid) ==
  /\ s[pid] = HUNGRY
  /\ s[Left(pid)] # EATING

\* tryToEat(pid) without the test of the left neighbour
CanEatIgnoringLeft(s, pid) ==
  /\ s[pid] = HUNGRY
  /\ s[Right(pid)] # EATING

\* tryToEat(pid) that wants both neighbours THINKING
CanEatOnlyThinkingNeighbours(s, pid) ==
  /\ s[pid] = HUNGRY
  /\ s[Left(pid)] = THINKING \/ Left(pid) = pid
  /\ s[Right(pid)] = THINKING \/ Right(pid) = pid

\* the condition of tryToEat(pid)
CanEat(s, pid) ==
  /\ s[pid] = HUNGRY
  /\ s[Left(pid)] # EATING
  /\ s[Right(pid)] # EATING

\* a tryToEat(pid) whose sems_[pid]->release() is outside the `if`
TryToEatAlwaysRelease(i, pid, thenPc, elsePc) ==
  /\ pc' = [pc EXCEPT ![i] = thenPc]
  /\ IF CanEat(states, pid)
       THEN states' = [states EXCEPT ![pid] = EATING]
       ELSE UNCHANGED states

\* tryToEat(pid) up to the call of sems_[pid]->release()
TryToEat(i, pid, thenPc, elsePc) ==
  IF CanEat(states, pid)
    THEN /\ states' = [states EXCEPT ![pid] = EATING]
         /\ pc' = [pc EXCEPT ![i] = thenPc]
    ELSE /\ pc' = [pc EXCEPT ![i] = elsePc]
         /\ UNCHANGED states

\* takeForks(pid): lock_guard lg(m_)
TakeForksLock(i) ==
  /\ pc[i] = "idle"
  /\ m = Free
  /\ m' = ByPhil(i)
  /\ pc' = [pc EXCEPT ![i] = "tf_hungry"]
  /\ UNCHANGED <<numPhils, states, semV, semWaiters, immediate, blockers,
                 monPc, st>>
  /\ UNCHANGED harnessVars
  /\ UNCHANGED electionVars

\* states_[pid] = State::HUNGRY
TakeForksHungry(i) ==
  /\ pc[i] = "tf_hungry"
  /\ states' = [states EXCEPT ![i] = HUNGRY]
  /\ pc' = [pc EXCEPT ![i] = "tf_try"]
  /\ UNCHANGED <<numPhils, m, semV, semWaiters, immediate, blockers, monPc,
                 st>>
  /\ UNCHANGED harnessVars
  /\ UNCHANGED electionVars

\* tryToEat(pid)
TakeForksTry(i) ==
  /\ pc[i] = "tf_try"
  /\ TryToEat(i, i, "tf_rel", "tf_unlock")
  /\ immediate' = [immediate EXCEPT ![i] = CanEat(states, i)]
  /\ blockers' = [blockers EXCEPT
                    ![i] = {j \in {Left(i), Right(i)} : states[j] = EATING}]
  /\ UNCHANGED <<numPhils, m, semV, semWaiters, monPc, st>>
  /\ UNCHANGED harnessVars
  /\ UNCHANGED electionVars

TakeForksRelease(i) ==
  /\ pc[i] = "tf_rel"
  /\ SemReleaseSet(i, i, "tf_notify")
  /\ UNCHANGED engineVars
  /\ UNCHANGED harnessVars
  /\ UNCHANGED electionVars

TakeForksNotify(i) ==
  /\ pc[i] = "tf_notify"
  /\ SemReleaseNotify(i, i, "tf_unlock")
  /\ UNCHANGED engineVars
  /\ UNCHANGED harnessVars
  /\ UNCHANGED electionVars

\* a takeForks whose acquire() is inside the lock_guard's block
TakeForksUnlockAfterAcquire(i) ==
  /\ pc[i] = "tf_unlock"
  /\ pc' = [pc EXCEPT ![i] = "acq"]
  /\ UNCHANGED <<numPhils, states, m, semV, semWaiters, immediate, blockers,
                 monPc, st>>
  /\ UNCHANGED harnessVars
  /\ UNCHANGED electionVars

\* the end of the lock_guard's block
TakeForksUnlock(i) ==
  /\ pc[i] = "tf_unlock"
  /\ m' = Free
  /\ pc' = [pc EXCEPT ![i] = "acq"]
  /\ UNCHANGED <<numPhils, states, semV, semWaiters, immediate, blockers,
                 monPc, st>>
  /\ UNCHANGED harnessVars
  /\ UNCHANGED electionVars

\* sems_[pid]->acquire()
TakeForksAcquire(i) ==
  /\ \/ SemAcquireEnter(i, i, "eat")
     \/ SemAcquireRecheck(i, i, "eat")
  /\ immediate' = [immediate EXCEPT ![i] = IF pc'[i] = "eat" THEN FALSE ELSE @]
  /\ blockers' = [blockers EXCEPT ![i] = IF pc'[i] = "eat" THEN {} ELSE @]
  /\ UNCHANGED <<numPhils, states, m, monPc, st>>
  /\ UNCHANGED harnessVars
  /\ UNCHANGED electionVars

TakeForksSpurious(i) ==
  /\ SemSpuriousWake(i, i)
  /\ UNCHANGED engineVars
  /\ UNCHANGED harnessVars
  /\ UNCHANGED electionVars

\* putForks(pid): lock_guard lg(m_)
PutForksLock(i) ==
  /\ pc[i] = "eat"
  /\ m = Free
  /\ m' = ByPhil(i)
  /\ pc' = [pc EXCEPT ![i] = "pf_think"]
  /\ UNCHANGED <<numPhils, states, semV, semWaiters, immediate, blockers,
                 monPc, st>>
  /\ UNCHANGED harnessVars
  /\ UNCHANGED electionVars

\* states_[pid] = State::THINKING
PutForksThinking(i) ==
  /\ pc[i] = "pf_think"
  /\ states' = [states EXCEPT ![i] = THINKING]
  /\ pc' = [pc EXCEPT ![i] = "pf_try1"]
  /\ blockers' = [j \in Phils |-> blockers[j] \ {i}]
  /\ UNCHANGED <<numPhils, m, semV, semWaiters, immediate, monPc, st>>
  /\ UNCHANGED harnessVars
  /\ UNCHANGED electionVars

\* a putForks that evaluates (pid + numPhils_ - 1) % numPhils_ first
FirstNeighbourIsLeft(i) == Left(i)

\* the neighbour putForks evaluates first
FirstNeighbour(i) == Right(i)

\* a putForks that evaluates (pid + 1) % numPhils_ twice
SecondNeighbourSameAsFirst(i) == Right(i)

\* the neighbour putForks evaluates second
SecondNeighbour(i) == Left(i)

\* states_ after tryToEat(pid) called with states_ = s
PromoteIn(s, pid) == IF CanEat(s, pid) THEN [s EXCEPT ![pid] = EATING] ELSE s

\* states_ after putForks(pid) called with states_ = s, evaluating the
\* neighbour `first` and then the neighbour `second`
PutForksStates(s, pid, first, second) ==
  PromoteIn(PromoteIn([s EXCEPT ![pid] = THINKING], first), second)

\* a putForks without its tryToEat((pid + 1) % numPhils_)
PutForksTryFirstSkipped(i) ==
  /\ pc[i] = "pf_try1"
  /\ pc' = [pc EXCEPT ![i] = "pf_try2"]
  /\ UNCHANGED <<numPhils, states, m, semV, semWaiters, immediate, blockers,
                 monPc, st>>
  /\ UNCHANGED harnessVars
  /\ UNCHANGED electionVars

\* tryToEat((pid + 1) % numPhils_)
PutForksTryFirst(i) ==
  /\ pc[i] = "pf_try1"
  /\ TryToEat(i, FirstNeighbour(i), "pf_rel1", "pf_try2")
  /\ UNCHANGED <<numPhils, m, semV, semWaiters, immediate, blockers, monPc,
                 st>>
  /\ UNCHANGED harnessVars
  /\ UNCHANGED electionVars

PutForksReleaseFirst(i) ==
  /\ pc[i] = "pf_rel1"
  /\ SemReleaseSet(i, FirstNeighbour(i), "pf_notify1")
  /\ UNCHANGED engineVars
  /\ UNCHANGED harnessVars
  /\ UNCHANGED electionVars

PutForksNotifyFirst(i) ==
  /\ pc[i] = "pf_notify1"
  /\ SemReleaseNotify(i, FirstNeighbour(i), "pf_try2")
  /\ UNCHANGED engineVars
  /\ UNCHANGED harnessVars
  /\ UNCHANGED electionVars

\* tryToEat((pid + numPhils_ - 1) % numPhils_)
PutForksTrySecond(i) ==
  /\ pc[i] = "pf_try2"
  /\ TryToEat(i, SecondNeighbour(i), "pf_rel2", "pf_unlock")
  /\ UNCHANGED <<numPhils, m, semV, semWaiters, immediate, blockers, monPc,
                 st>>
  /\ UNCHANGED harnessVars
  /\ UNCHANGED electionVars

PutForksReleaseSecond(i) ==
  /\ pc[i] = "pf_rel2"
  /\ SemReleaseSet(i, SecondNeighbour(i), "pf_notify2")
  /\ UNCHANGED engineVars
  /\ UNCHANGED harnessVars
  /\ UNCHANGED electionVars

PutForksNotifySecond(i) ==
  /\ pc[i] = "pf_notify2"
  /\ SemReleaseNotify(i, SecondNeighbour(i), "pf_unlock")
  /\ UNCHANGED engineVars
  /\ UNCHANGED harnessVars
  /\ UNCHANGED electionVars

\* the end of putForks; the philosopher is back at the head of its loop (a
\* philosopher whose run time is over stays there)
PutForksUnlock(i) ==
  /\ pc[i] = "pf_unlock"
  /\ m' = Free
  /\ pc' = [pc EXCEPT ![i] = "idle"]
  /\ UNCHANGED <<numPhils, states, semV, semWaiters, immediate, blockers,
                 monPc, st>>
  /\ UNCHANGED harnessVars
  /\ UNCHANGED electionVars

-----------------------------------------------------------------------------
(* The monitor loop of DiningPhilosophersTest.Basic, calling getStates *)

\* a getStates() that copies without taking m_
GetStatesWithoutLock ==
  /\ monPc = "poll"
  /\ monPc' = "copy"
  /\ UNCHANGED <<numPhils, states, m, semV, semWaiters, pc, immediate,
                 blockers, st>>
  /\ UNCHANGED harnessVars
  /\ UNCHANGED electionVars

\* getStates(): lock_guard lg(m_)
GetStatesLock ==
  /\ monPc = "poll"
  /\ m = Free
  /\ m' = ByMonitor
  /\ monPc' = "copy"
  /\ UNCHANGED <<numPhils, states, semV, semWaiters, pc, immediate,
                 blockers, st>>
  /\ UNCHANGED harnessVars
  /\ UNCHANGED electionVars

\* res = states_
GetStatesCopy ==
  /\ monPc = "copy"
  /\ st' = states
  /\ monPc' = "return"
  /\ UNCHANGED <<numPhils, states, m, semV, semWaiters, pc, immediate,
                 blockers>>
  /\ UNCHANGED harnessVars
  /\ UNCHANGED electionVars

\* what the monitor's CHECK tests on a vector
CheckPasses(s) ==
  \A pid \in Phils : s[pid] = EATING => s[Right(pid)] # EATING

\* getStates returns res (m_ is unlocked) and the monitor runs its CHECKs on
\* it, which read nothing but this copy; a failed CHECK aborts the process
GetStatesReturn ==
  /\ monPc = "return"
  /\ m' = Free
  /\ monPc' = IF CheckPasses(st) THEN "poll" ELSE "aborted"
  /\ st' = <<>>
  /\ UNCHANGED <<numPhils, states, semV, semWaiters, pc, immediate, blockers>>
  /\ UNCHANGED harnessVars
  /\ UNCHANGED electionVars

-----------------------------------------------------------------------------

\* PhilosophersSync(n) for a ring of n, and the threads of the test
EngineInit(n) ==
  /\ numPhils = n
  /\ states = [i \in 0 .. (n - 1) |-> THINKING]
  /\ m = Free
  /\ semV = [i \in 0 .. (n - 1) |-> SemInit(0)]
  /\ semWaiters = [i \in 0 .. (n - 1) |-> {}]
  /\ pc = [i \in 0 .. (n - 1) |-> "idle"]
  /\ immediate = [i \in 0 .. (n - 1) |-> FALSE]
  /\ blockers = [i \in 0 .. (n - 1) |-> {}]
  /\ monPc \in {"poll", "off"}
  /\ st = <<>>
  /\ script = <<>>
  /\ ip = <<>>
  /\ ctorArg = 0
  /\ relSinceAcq = FALSE
  /\ ElectionOff

Init == \E n \in 1 .. MaxN : EngineInit(n) /\ monPc = "poll"

\* the steps of the actor threads
PhilNext ==
  \/ \E i \in Phils : TakeForksLock(i)
  \/ \E i \in Phils : TakeForksHungry(i)
  \/ \E i \in Phils : TakeForksTry(i)
  \/ \E i \in Phils : TakeForksRelease(i)
  \/ \E i \in Phils : TakeForksNotify(i)
  \/ \E i \in Phils : TakeForksUnlock(i)
  \/ \E i \in Phils : TakeForksAcquire(i)
  \/ \E i \in Phils : TakeForksSpurious(i)
  \/ \E i \in Phils : PutForksLock(i)
  \/ \E i \in Phils : PutForksThinking(i)
  \/ \E i \in Phils : PutForksTryFirst(i)
  \/ \E i \in Phils : PutForksReleaseFirst(i)
  \/ \E i \in Phils : PutForksNotifyFirst(i)
  \/ \E i \in Phils : PutForksTrySecond(i)
  \/ \E i \in Phils : PutForksReleaseSecond(i)
  \/ \E i \in Phils : PutForksNotifySecond(i)
  \/ \E i \in Phils : PutForksUnlock(i)

\* the steps of the monitor
MonitorNext ==
  \/ GetStatesLock
  \/ GetStatesCopy
  \/ GetStatesReturn

Next == PhilNext \/ MonitorNext

Spec == Init /\ [][Next]_vars

\* Fair scheduling of the actor threads.  A thread inside a call keeps
\* running; an actor that is using its forks calls putForks and gets m_ (m_
\* is free again and again).  Nothing obliges a
\* THINKING actor to call takeForks again, and no wait is obliged to end
\* spuriously.
PhilRuns(i) ==
  /\ i \in Phils
  /\ \/ TakeForksHungry(i)
     \/ TakeForksTry(i)
     \/ TakeForksRelease(i)
     \/ TakeForksNotify(i)
     \/ TakeForksUnlock(i)
     \/ TakeForksAcquire(i)
     \/ PutForksThinking(i)
     \/ PutForksTryFirst(i)
     \/ PutForksReleaseFirst(i)
     \/ PutForksNotifyFirst(i)
     \/ PutForksTrySecond(i)
     \/ PutForksReleaseSecond(i)
     \/ PutForksNotifySecond(i)
     \/ PutForksUnlock(i)

PhilPutsForks(i) == i \in Phils /\ PutForksLock(i)

Fairness ==
  \A i \in 0 .. (LiveN - 1) :
    WF_vars(PhilRuns(i)) /\ SF_vars(PhilPutsForks(i))

\* the actor threads alone (no monitor is started), under fair scheduling
LiveInit == \E n \in 1 .. LiveN : EngineInit(n) /\ monPc = "off"

LiveSpec == LiveInit /\ [][PhilNext]_vars /\ Fairness

\* the ring of StarveN actor threads alone, under fair scheduling
StarveInit == EngineInit(StarveN) /\ monPc = "off"

StarveFairness ==
  \A i \in 0 .. (StarveN - 1) :
    WF_vars(PhilRuns(i)) /\ SF_vars(PhilPutsForks(i))

StarveSpec == StarveInit /\ [][PhilNext]_vars /\ StarveFairness

\* The actor threads and the monitor under fair scheduling: as Fairness, and
\* the monitor, which polls for as long as the test runs, goes on inside
\* getStates and gets m_ (m_ is free again and again).
MonitorRuns == GetStatesCopy \/ GetStatesReturn

LockInit == \E n \in 1 .. LockN : EngineInit(n) /\ monPc = "poll"

LockFairness ==
  /\ \A i \in 0 .. (LockN - 1) :
       WF_vars(PhilRuns(i)) /\ SF_vars(PhilPutsForks(i))
  /\ WF_vars(MonitorRuns)
  /\ SF_vars(GetStatesLock)

LockSpec == LockInit /\ [][Next]_vars /\ LockFairness

-----------------------------------------------------------------------------
(* A caller of the public operations that keeps no order of calls: it      *)
(* constructs the engine with any n, and its threads may call takeForks    *)
(* again after takeForks and putForks without a takeForks before.          *)

\* PhilosophersSync ps(n): numPhils_(n), states_(n, State::THINKING) and n
\* semaphores of value 0; the constructor tests nothing and returns
Construct ==
  /\ monPc = "ctor"
  /\ \E n \in 0 .. ApiN :
       /\ numPhils' = n
       /\ states' = [i \in 0 .. (n - 1) |-> THINKING]
       /\ semV' = [i \in 0 .. (n - 1) |-> SemInit(0)]
       /\ semWaiters' = [i \in 0 .. (n - 1) |-> {}]
       /\ pc' = [i \in 0 .. (n - 1) |-> "idle"]
       /\ immediate' = [i \in 0 .. (n - 1) |-> FALSE]
       /\ blockers' = [i \in 0 .. (n - 1) |-> {}]
  /\ monPc' = "off"
  /\ UNCHANGED <<m, st>>
  /\ UNCHANGED harnessVars
  /\ UNCHANGED electionVars

\* takeForks(pid) called by a thread whose earlier takeForks(pid) has
\* returned: lock_guard lg(m_)
TakeForksAgainLock(i) ==
  /\ pc[i] = "eat"
  /\ m = Free
  /\ m' = ByPhil(i)
  /\ pc' = [pc EXCEPT ![i] = "tf_hungry"]
  /\ UNCHANGED <<numPhils, states, semV, semWaiters, immediate, blockers,
                 monPc, st>>
  /\ UNCHANGED harnessVars
  /\ UNCHANGED electionVars

\* putForks(pid) called by a thread that is not past a takeForks(pid):
\* lock_guard lg(m_)
PutForksEarlyLock(i) ==
  /\ pc[i] = "idle"
  /\ m = Free
  /\ m' = ByPhil(i)
  /\ pc' = [pc EXCEPT ![i] = "pf_think"]
  /\ UNCHANGED <<numPhils, states, semV, semWaiters, immediate, blockers,
                 monPc, st>>
  /\ UNCHANGED harnessVars
  /\ UNCHANGED electionVars

\* the program before the constructor is called
ApiInit ==
  /\ numPhils = 0
  /\ states = <<>>
  /\ m = Free
  /\ semV = <<>>
  /\ semWaiters = <<>>
  /\ pc = <<>>
  /\ immediate = <<>>
  /\ blockers = <<>>
  /\ monPc = "ctor"
  /\ st = <<>>
  /\ script = <<>>
  /\ ip = <<>>
  /\ ctorArg = 0
  /\ relSinceAcq = FALSE
  /\ ElectionOff

ApiNext ==
  \/ Construct
  \/ PhilNext
  \/ \E i \in Phils : TakeForksAgainLock(i)
  \/ \E i \in Phils : PutForksEarlyLock(i)

ApiSpec == ApiInit /\ [][ApiNext]_vars

-----------------------------------------------------------------------------
(* The harness on one BinarySemaphore, after BinarySemaphoreTest.Basic:    *)
(* two threads, each making the calls of its script in order.              *)

GateThreads == {"main", "adder"}
Gate == "bs"
Ops == {"acquire", "release"}

RECURSIVE SeqsUpTo(_, _)
SeqsUpTo(S, k) ==
  IF k = 0 THEN {<<>>}
  ELSE LET shorter == SeqsUpTo(S, k - 1)
       IN shorter \cup {Append(q, x) : q \in shorter, x \in S}

\* BinarySemaphore bs(arg), and the threads before their first call, each
\* with a script of at most maxOps calls
GateInitWith(maxOps) ==
  /\ ctorArg \in 0 .. MaxCtorArg
  /\ script \in [GateThreads -> SeqsUpTo(Ops, maxOps)]
  /\ ip = [t \in GateThreads |-> 1]
  /\ pc = [t \in GateThreads |-> "next"]
  /\ semV = [g \in {Gate} |-> SemInit(ctorArg)]
  /\ semWaiters = [g \in {Gate} |-> {}]
  /\ relSinceAcq = FALSE
  /\ ElectionOff
  /\ numPhils = 0
  /\ states = <<>>
  /\ m = Free
  /\ immediate = <<>>
  /\ blockers = <<>>
  /\ monPc = "off"
  /\ st = <<>>

GateInit == GateInitWith(MaxOps)

\* the next call of thread t, which is at it
NextOp(t) ==
  IF pc[t] = "next" /\ ip[t] <= Len(script[t]) THEN script[t][ip[t]] ELSE "none"

\* the number of calls of thread t that have returned
Returned(t) == ip[t] - 1

\* bs.acquire() is called
CallAcquire(t) ==
  /\ NextOp(t) = "acquire"
  /\ pc' = [pc EXCEPT ![t] = "acq"]
  /\ UNCHANGED <<semV, semWaiters>>
  /\ UNCHANGED harnessVars
  /\ UNCHANGED electionVars
  /\ UNCHANGED engineVars

\* a step of bs.acquire(); its return moves the thread to its next call
GateAcquire(t) ==
  /\ \/ SemAcquireEnter(t, Gate, "next")
     \/ SemAcquireRecheck(t, Gate, "next")
  /\ ip' = [ip EXCEPT ![t] = IF pc'[t] = "next" THEN @ + 1 ELSE @]
  /\ relSinceAcq' = IF pc'[t] = "next" THEN FALSE ELSE relSinceAcq
  /\ UNCHANGED <<script, ctorArg>>
  /\ UNCHANGED engineVars
  /\ UNCHANGED electionVars

GateSpurious(t) ==
  /\ SemSpuriousWake(t, Gate)
  /\ UNCHANGED harnessVars
  /\ UNCHANGED electionVars
  /\ UNCHANGED engineVars

\* bs.release() is called
CallRelease(t) ==
  /\ NextOp(t) = "release"
  /\ pc' = [pc EXCEPT ![t] = "rel"]
  /\ UNCHANGED <<semV, semWaiters>>
  /\ UNCHANGED harnessVars
  /\ UNCHANGED electionVars
  /\ UNCHANGED engineVars

GateReleaseSet(t) ==
  /\ pc[t] = "rel"
  /\ SemReleaseSet(t, Gate, "rel_notify")
  /\ relSinceAcq' = TRUE
  /\ UNCHANGED <<script, ip, ctorArg>>
  /\ UNCHANGED engineVars
  /\ UNCHANGED electionVars

\* the notify, and the return of bs.release()
GateReleaseNotify(t) ==
  /\ pc[t] = "rel_notify"
  /\ SemReleaseNotify(t, Gate, "next")
  /\ ip' = [ip EXCEPT ![t] = @ + 1]
  /\ UNCHANGED <<script, ctorArg, relSinceAcq>>
  /\ UNCHANGED engineVars
  /\ UNCHANGED electionVars

GateNext ==
  \/ \E t \in GateThreads : CallAcquire(t)
  \/ \E t \in GateThreads : GateAcquire(t)
  \/ \E t \in GateThreads : GateSpurious(t)
  \/ \E t \in GateThreads : CallRelease(t)
  \/ \E t \in GateThreads : GateReleaseSet(t)
  \/ \E t \in GateThreads : GateReleaseNotify(t)

GateSpec == GateInit /\ [][GateNext]_vars

\* every thread that can run does run; a wait ends for sure only by a notify
GateProgress(t) ==
  \/ CallAcquire(t)
  \/ GateAcquire(t)
  \/ CallRelease(t)
  \/ GateReleaseSet(t)
  \/ GateReleaseNotify(t)

GateFairness == \A t \in GateThreads : WF_vars(GateProgress(t))

\* the harness with the short scripts of the test (one call per thread),
\* under fair scheduling
SemTestInit == GateInitWith(TestOps)

SemTestSpec == SemTestInit /\ [][GateNext]_vars /\ GateFairness

-----------------------------------------------------------------------------
(* LeaderElection: the instances StartLeaderElectionAsync has returned, on  *)
(* one election prefix.  Each has its own etcd session (a lease) and its    *)
(* campaign goroutine; threads of the caller may call Close().  The etcd    *)
(* calls are modelled at the call sites by what the etcd concurrency        *)
(* package does: Campaign creates the instance's key under its lease and    *)
(* returns nil once no key created earlier exists, or an error when its     *)
(* context is cancelled (it then resigns); a lease that ends deletes its    *)
(* key and closes the session's Done channel.  The caller never reads the   *)
(* channels.                                                                *)

Insts == DOMAIN gopc
Closers == DOMAIN closePc

\* the instance a closing thread calls Close() on
InstOf(c) == c[1]

\* the capacity of BecomeLeaderCh and of AnyErrorCh: make(chan ..., 1)
ChanCap == 1

\* a Campaign on a prefix of its own: no key counts as created before
BeforeNobody(i) == {}

\* the keys Campaign of instance i waits for: those created before its own
Before(i) == earlierKeys[i]

\* etcd deletes the key of instance j
KeyDeleted(j) ==
  /\ liveKeys' = liveKeys \ {j}
  /\ earlierKeys' = [k \in DOMAIN earlierKeys |-> earlierKeys[k] \ {j}]

\* election.Resign(): deletes the key the election holds, if it holds one
Resign(i) ==
  /\ IF leaderSession[i] THEN KeyDeleted(i)
                         ELSE UNCHANGED <<liveKeys, earlierKeys>>
  /\ leaderSession' = [leaderSession EXCEPT ![i] = FALSE]

\* election.Campaign(campaignCtx, ...), its transaction: it fails when the
\* context is cancelled or the lease is gone, else it creates the key
CampaignPut(i) ==
  /\ gopc[i] = "campaign"
  /\ IF campaignCancelled[i] \/ ~leaseAlive[i]
       THEN /\ gopc' = [gopc EXCEPT ![i] = "send_err"]
            /\ UNCHANGED <<earlierKeys, liveKeys, leaderSession>>
       ELSE /\ earlierKeys' = [earlierKeys EXCEPT ![i] = liveKeys]
            /\ liveKeys' = liveKeys \cup {i}
            /\ leaderSession' = [leaderSession EXCEPT ![i] = TRUE]
            /\ gopc' = [gopc EXCEPT ![i] = "waiting"]
  /\ UNCHANGED <<leaseAlive, sessionDone, isClosed, campaignCancelled,
                 dontCloseEtcdClient, clientClosed, BecomeLeaderCh,
                 AnyErrorCh, closePc>>
  /\ UNCHANGED <<engineVars, semV, semWaiters, pc, harnessVars>>
  /\ UNCHANGED startVars

\* Campaign returns nil: no key created before its own exists any more
CampaignWon(i) ==
  /\ gopc[i] = "waiting"
  /\ Before(i) \cap liveKeys = {}
  /\ gopc' = [gopc EXCEPT ![i] = "send_leader"]
  /\ UNCHANGED <<etcdVars, leaderSession, isClosed, campaignCancelled,
                 dontCloseEtcdClient, clientClosed, BecomeLeaderCh,
                 AnyErrorCh, closePc>>
  /\ UNCHANGED <<engineVars, semV, semWaiters, pc, harnessVars>>
  /\ UNCHANGED startVars

\* Campaign finds its context cancelled: it resigns and returns the error
CampaignCancelled(i) ==
  /\ gopc[i] = "waiting"
  /\ campaignCancelled[i]
  /\ Resign(i)
  /\ gopc' = [gopc EXCEPT ![i] = "send_err"]
  /\ UNCHANGED <<leaseAlive, sessionDone, isClosed,
                 campaignCancelled, dontCloseEtcdClient, clientClosed,
                 BecomeLeaderCh, AnyErrorCh, closePc>>
  /\ UNCHANGED <<engineVars, semV, semWaiters, pc, harnessVars>>
  /\ UNCHANGED startVars

\* a send into a buffered channel: it blocks while the buffer is full
ChanSend(ch, i) ==
  /\ ch[i] < ChanCap
  /\ ch' = [ch EXCEPT ![i] = @ + 1]

\* becomeLeaderCh <- struct{}{}
SendBecomeLeader(i) ==
  /\ gopc[i] = "send_leader"
  /\ ChanSend(BecomeLeaderCh, i)
  /\ gopc' = [gopc EXCEPT ![i] = "wait_done"]
  /\ UNCHANGED <<etcdVars, leaderSession, isClosed, campaignCancelled,
                 dontCloseEtcdClient, clientClosed, AnyErrorCh, closePc>>
  /\ UNCHANGED <<engineVars, semV, semWaiters, pc, harnessVars>>
  /\ UNCHANGED startVars

\* a goroutine without its <-session.Done()
WaitSessionDoneSkipped(i) ==
  /\ gopc[i] = "wait_done"
  /\ gopc' = [gopc EXCEPT ![i] = "send_lost"]
  /\ UNCHANGED <<etcdVars, leaderSession, isClosed, campaignCancelled,
                 dontCloseEtcdClient, clientClosed, BecomeLeaderCh,
                 AnyErrorCh, closePc>>
  /\ UNCHANGED <<engineVars, semV, semWaiters, pc, harnessVars>>
  /\ UNCHANGED startVars

\* <-session.Done()
WaitSessionDone(i) ==
  /\ gopc[i] = "wait_done"
  /\ sessionDone[i]
  /\ gopc' = [gopc EXCEPT ![i] = "send_lost"]
  /\ UNCHANGED <<etcdVars, leaderSession, isClosed, campaignCancelled,
                 dontCloseEtcdClient, clientClosed, BecomeLeaderCh,
                 AnyErrorCh, closePc>>
  /\ UNCHANGED <<engineVars, semV, semWaiters, pc, harnessVars>>
  /\ UNCHANGED startVars

\* anyErrorCh <- errors.New("the session is done ..."), and
\* anyErrorCh <- err of a failed Campaign; the goroutine ends
SendError(i) ==
  /\ gopc[i] \in {"send_lost", "send_err"}
  /\ ChanSend(AnyErrorCh, i)
  /\ gopc' = [gopc EXCEPT ![i] = "end"]
  /\ UNCHANGED <<etcdVars, leaderSession, isClosed, campaignCancelled,
                 dontCloseEtcdClient, clientClosed, BecomeLeaderCh, closePc>>
  /\ UNCHANGED <<engineVars, semV, semWaiters, pc, harnessVars>>
  /\ UNCHANGED startVars

\* a Close() that does not look at what Swap returns
SwapReturnsFalse(old) == FALSE

\* l.isClosed.Swap(true): what it returns
SwapReturns(old) == old

\* Close(): if l.isClosed.Swap(true) { return }
CloseSwap(c) ==
  /\ closePc[c] = "call"
  /\ isClosed' = [isClosed EXCEPT ![InstOf(c)] = TRUE]
  /\ closePc' = [closePc EXCEPT
                   ![c] = IF SwapReturns(isClosed[InstOf(c)])
                            THEN "already" ELSE "cancel"]
  /\ UNCHANGED <<etcdVars, leaderSession, campaignCancelled,
                 dontCloseEtcdClient, clientClosed, BecomeLeaderCh,
                 AnyErrorCh, gopc>>
  /\ UNCHANGED <<engineVars, semV, semWaiters, pc, harnessVars>>
  /\ UNCHANGED startVars

\* l.cancelCampaign()
CloseCancel(c) ==
  /\ closePc[c] = "cancel"
  /\ campaignCancelled' = [campaignCancelled EXCEPT ![InstOf(c)] = TRUE]
  /\ closePc' = [closePc EXCEPT ![c] = "resign"]
  /\ UNCHANGED <<etcdVars, leaderSession, isClosed, dontCloseEtcdClient,
                 clientClosed, BecomeLeaderCh, AnyErrorCh, gopc>>
  /\ UNCHANGED <<engineVars, semV, semWaiters, pc, harnessVars>>
  /\ UNCHANGED startVars

\* l.etcdElection.Resign(context.Background()).  It reads the election's
\* fields, which the goroutine's Campaign writes, without synchronisation:
\* it may find no key to resign although Campaign has created one
CloseResign(c) ==
  /\ closePc[c] = "resign"
  /\ \/ Resign(InstOf(c))
     \/ /\ leaderSession[InstOf(c)]
        /\ UNCHANGED <<liveKeys, earlierKeys, leaderSession>>
  /\ closePc' = [closePc EXCEPT ![c] = "session"]
  /\ UNCHANGED <<leaseAlive, sessionDone, isClosed,
                 campaignCancelled, dontCloseEtcdClient, clientClosed,
                 BecomeLeaderCh, AnyErrorCh, gopc>>
  /\ UNCHANGED <<engineVars, semV, semWaiters, pc, harnessVars>>
  /\ UNCHANGED startVars

\* l.etcdSession.Close(): the keep-alive stops (Done is closed) and the
\* lease is revoked, which deletes its key
CloseSession(c) ==
  /\ closePc[c] = "session"
  /\ sessionDone' = [sessionDone EXCEPT ![InstOf(c)] = TRUE]
  /\ leaseAlive' = [leaseAlive EXCEPT ![InstOf(c)] = FALSE]
  /\ KeyDeleted(InstOf(c))
  /\ closePc' = [closePc EXCEPT ![c] = "client"]
  /\ UNCHANGED <<leaderSession, isClosed, campaignCancelled,
                 dontCloseEtcdClient, clientClosed, BecomeLeaderCh,
                 AnyErrorCh, gopc>>
  /\ UNCHANGED <<engineVars, semV, semWaiters, pc, harnessVars>>
  /\ UNCHANGED startVars

\* if !l.dontCloseEtcdClient { l.etcdClient.Close() }; Close() returns
CloseClient(c) ==
  /\ closePc[c] = "client"
  /\ clientClosed' = [clientClosed EXCEPT
                        ![InstOf(c)] = @ \/ ~dontCloseEtcdClient[InstOf(c)]]
  /\ closePc' = [closePc EXCEPT ![c] = "closed"]
  /\ UNCHANGED <<etcdVars, leaderSession, isClosed, campaignCancelled,
                 dontCloseEtcdClient, BecomeLeaderCh, AnyErrorCh, gopc>>
  /\ UNCHANGED <<engineVars, semV, semWaiters, pc, harnessVars>>
  /\ UNCHANGED startVars

\* the etcd servers: the lease of a session is not kept alive in time and
\* expires, which deletes its key
LeaseExpires(i) ==
  /\ leaseAlive[i]
  /\ leaseAlive' = [leaseAlive EXCEPT ![i] = FALSE]
  /\ KeyDeleted(i)
  /\ UNCHANGED <<sessionDone, leaderSession, isClosed,
                 campaignCancelled, dontCloseEtcdClient, clientClosed,
                 BecomeLeaderCh, AnyErrorCh, gopc, closePc>>
  /\ UNCHANGED <<engineVars, semV, semWaiters, pc, harnessVars>>
  /\ UNCHANGED startVars

\* the session's keep-alive ends after its lease is gone: Done is closed
KeepAliveEnds(i) ==
  /\ ~leaseAlive[i]
  /\ ~sessionDone[i]
  /\ sessionDone' = [sessionDone EXCEPT ![i] = TRUE]
  /\ UNCHANGED <<earlierKeys, liveKeys, leaseAlive, leaderSession, isClosed,
                 campaignCancelled, dontCloseEtcdClient, clientClosed,
                 BecomeLeaderCh, AnyErrorCh, gopc, closePc>>
  /\ UNCHANGED <<engineVars, semV, semWaiters, pc, harnessVars>>
  /\ UNCHANGED startVars

\* StartLeaderElectionAsync has returned n instances without error, each with
\* k threads that may call Close() on it; owned tells for each instance
\* whether the library created its etcd client (Config.EtcdClient was nil)
ElectionInit(n, k, owned) ==
  /\ earlierKeys = [i \in 1 .. n |-> {}]
  /\ liveKeys = {}
  /\ leaseAlive = [i \in 1 .. n |-> TRUE]
  /\ sessionDone = [i \in 1 .. n |-> FALSE]
  /\ leaderSession = [i \in 1 .. n |-> FALSE]
  /\ isClosed = [i \in 1 .. n |-> FALSE]
  /\ campaignCancelled = [i \in 1 .. n |-> FALSE]
  /\ dontCloseEtcdClient = [i \in 1 .. n |-> ~owned[i]]
  /\ clientClosed = [i \in 1 .. n |-> FALSE]
  /\ BecomeLeaderCh = [i \in 1 .. n |-> 0]
  /\ AnyErrorCh = [i \in 1 .. n |-> 0]
  /\ gopc = [i \in 1 .. n |-> "campaign"]
  /\ closePc = [c \in (1 .. n) \X (1 .. k) |-> "call"]
  /\ startPc = [i \in 1 .. n |-> "returned"]
  /\ toClose = [i \in 1 .. n |-> <<>>]
  /\ configClient = [i \in 1 .. n |-> ~owned[i]]
  /\ numPhils = 0
  /\ states = <<>>
  /\ m = Free
  /\ semV = <<>>
  /\ semWaiters = <<>>
  /\ pc = <<>>
  /\ immediate = <<>>
  /\ blockers = <<>>
  /\ monPc = "off"
  /\ st = <<>>
  /\ script = <<>>
  /\ ip = <<>>
  /\ ctorArg = 0
  /\ relSinceAcq = FALSE

\* the steps of the campaign goroutines
CampaignNext ==
  \/ \E i \in Insts : CampaignPut(i)
  \/ \E i \in Insts : CampaignWon(i)
  \/ \E i \in Insts : CampaignCancelled(i)
  \/ \E i \in Insts : SendBecomeLeader(i)
  \/ \E i \in Insts : WaitSessionDone(i)
  \/ \E i \in Insts : SendError(i)

\* the steps of the threads calling Close()
CloseNext ==
  \/ \E c \in Closers : CloseSwap(c)
  \/ \E c \in Closers : CloseCancel(c)
  \/ \E c \in Closers : CloseResign(c)
  \/ \E c \in Closers : CloseSession(c)
  \/ \E c \in Closers : CloseClient(c)

\* the steps of etcd
EtcdNext ==
  \/ \E i \in Insts : LeaseExpires(i)
  \/ \E i \in Insts : KeepAliveEnds(i)

ElectionNext == CampaignNext \/ CloseNext \/ EtcdNext

\* up to MaxInst instances on the caller's etcd client, as in the tests, one
\* Close() each at most
ElectInit ==
  \E n \in 1 .. MaxInst : ElectionInit(n, 1, [i \in 1 .. n |-> FALSE])

ElectSpec == ElectInit /\ [][ElectionNext]_vars

\* Fair scheduling: a goroutine that can run does, a Close() that has been
\* called runs on, and a keep-alive whose lease is gone ends.  Nothing obliges
\* a caller to call Close(), nor a lease to expire.
GoroutineRuns(i) ==
  /\ i \in Insts
  /\ \/ CampaignPut(i)
     \/ CampaignWon(i)
     \/ CampaignCancelled(i)
     \/ SendBecomeLeader(i)
     \/ WaitSessionDone(i)
     \/ SendError(i)

CloseRuns(i) ==
  \E c \in Closers :
    /\ InstOf(c) = i
    /\ \/ CloseCancel(c)
       \/ CloseResign(c)
       \/ CloseSession(c)
       \/ CloseClient(c)

SessionEnds(i) == i \in Insts /\ KeepAliveEnds(i)

ElectFairness ==
  \A i \in 1 .. MaxInst :
    /\ WF_vars(GoroutineRuns(i))
    /\ WF_vars(CloseRuns(i))
    /\ WF_vars(SessionEnds(i))

ElectLiveSpec == ElectInit /\ [][ElectionNext]_vars /\ ElectFairness

\* one instance and up to MaxClosers threads calling Close() on it
CloseInit ==
  \E k \in 1 .. MaxClosers : \E owned \in BOOLEAN :
    ElectionInit(1, k, <<owned>>)

CloseSpec == CloseInit /\ [][ElectionNext]_vars

-----------------------------------------------------------------------------
(* StartLeaderElectionAsync, from its call.  createEtcdClient and           *)
(* concurrency.NewSession each succeed or return an error.  The deferred    *)
(* function runs at every return and closes what toClose then holds, last   *)
(* to first.                                                                *)

\* Most calls of StartLeaderElectionAsync.
MaxStarts == 1

\* toClose = append(toClose, x)
ToCloseAppend(i, x) == toClose' = [toClose EXCEPT ![i] = Append(@, x)]

\* lines 90-102: client := config.EtcdClient; a nil client is replaced by one
\* createEtcdClient makes; on its error the function returns, else the
\* client is appended to toClose
StartClient(i) ==
  /\ startPc[i] = "call"
  /\ \/ /\ configClient[i]
        /\ dontCloseEtcdClient' = [dontCloseEtcdClient EXCEPT ![i] = TRUE]
        /\ ToCloseAppend(i, "client")
        /\ startPc' = [startPc EXCEPT ![i] = "session"]
     \/ /\ ~configClient[i]
        /\ dontCloseEtcdClient' = [dontCloseEtcdClient EXCEPT ![i] = FALSE]
        /\ \/ /\ ToCloseAppend(i, "client")
              /\ startPc' = [startPc EXCEPT ![i] = "session"]
           \/ /\ startPc' = [startPc EXCEPT ![i] = "return_err"]
              /\ UNCHANGED toClose
  /\ UNCHANGED <<etcdVars, leaderSession, isClosed, campaignCancelled,
                 clientClosed, BecomeLeaderCh, AnyErrorCh, gopc, closePc,
                 configClient>>
  /\ UNCHANGED <<engineVars, semV, semWaiters, pc, harnessVars>>

\* lines 107-114: concurrency.NewSession; on its error the function returns,
\* else the session (its lease is granted and kept alive) is appended
StartSession(i) ==
  /\ startPc[i] = "session"
  /\ \/ /\ leaseAlive' = [leaseAlive EXCEPT ![i] = TRUE]
        /\ sessionDone' = [sessionDone EXCEPT ![i] = FALSE]
        /\ ToCloseAppend(i, "session")
        /\ startPc' = [startPc EXCEPT ![i] = "spawn"]
     \/ /\ startPc' = [startPc EXCEPT ![i] = "return_err"]
        /\ UNCHANGED <<leaseAlive, sessionDone, toClose>>
  /\ UNCHANGED <<earlierKeys, liveKeys, leaderSession, isClosed,
                 campaignCancelled, dontCloseEtcdClient, clientClosed,
                 BecomeLeaderCh, AnyErrorCh, gopc, closePc, configClient>>
  /\ UNCHANGED <<engineVars, semV, semWaiters, pc, harnessVars>>

\* lines 117-138: the election, the context, the channels and `go func`
StartSpawn(i) ==
  /\ startPc[i] = "spawn"
  /\ gopc' = [gopc EXCEPT ![i] = "campaign"]
  /\ startPc' = [startPc EXCEPT ![i] = "keep"]
  /\ UNCHANGED <<etcdVars, leaderSession, isClosed, campaignCancelled,
                 dontCloseEtcdClient, clientClosed, BecomeLeaderCh,
                 AnyErrorCh, closePc, toClose, configClient>>
  /\ UNCHANGED <<engineVars, semV, semWaiters, pc, harnessVars>>

\* line 140: toClose = toClose[:0]
StartKeep(i) ==
  /\ startPc[i] = "keep"
  /\ toClose' = [toClose EXCEPT ![i] = <<>>]
  /\ startPc' = [startPc EXCEPT ![i] = "return_ok"]
  /\ UNCHANGED <<etcdVars, leaderSession, isClosed, campaignCancelled,
                 dontCloseEtcdClient, clientClosed, BecomeLeaderCh,
                 AnyErrorCh, gopc, closePc, configClient>>
  /\ UNCHANGED <<engineVars, semV, semWaiters, pc, harnessVars>>

\* lines 84-88, one turn of the deferred loop: toClose[i].Close() of the
\* last entry left
StartDeferredClose(i) ==
  /\ startPc[i] \in {"return_err", "return_ok"}
  /\ toClose[i] # <<>>
  /\ toClose' = [toClose EXCEPT ![i] = SubSeq(@, 1, Len(@) - 1)]
  /\ IF toClose[i][Len(toClose[i])] = "client"
       THEN /\ clientClosed' = [clientClosed EXCEPT ![i] = TRUE]
            /\ UNCHANGED etcdVars
       ELSE /\ sessionDone' = [sessionDone EXCEPT ![i] = TRUE]
            /\ leaseAlive' = [leaseAlive EXCEPT ![i] = FALSE]
            /\ KeyDeleted(i)
            /\ UNCHANGED clientClosed
  /\ UNCHANGED <<leaderSession, isClosed, campaignCancelled,
                 dontCloseEtcdClient, BecomeLeaderCh, AnyErrorCh, gopc,
                 closePc, startPc, configClient>>
  /\ UNCHANGED <<engineVars, semV, semWaiters, pc, harnessVars>>

\* the function returns: with an error, or (lines 141-152) with the
\* LeaderElection, on which the caller may from now on call Close()
StartReturn(i) ==
  /\ startPc[i] \in {"return_err", "return_ok"}
  /\ toClose[i] = <<>>
  /\ IF startPc[i] = "return_ok"
       THEN /\ startPc' = [startPc EXCEPT ![i] = "returned"]
            /\ closePc' = [c \in Closers |->
                             IF InstOf(c) = i THEN "call" ELSE closePc[c]]
       ELSE /\ startPc' = [startPc EXCEPT ![i] = "failed"]
            /\ UNCHANGED closePc
  /\ UNCHANGED <<etcdVars, leaderSession, isClosed, campaignCancelled,
                 dontCloseEtcdClient, clientClosed, BecomeLeaderCh,
                 AnyErrorCh, gopc, toClose, configClient>>
  /\ UNCHANGED <<engineVars, semV, semWaiters, pc, harnessVars>>

StartNext ==
  \/ \E i \in Insts : StartClient(i)
  \/ \E i \in Insts : StartSession(i)
  \/ \E i \in Insts : StartSpawn(i)
  \/ \E i \in Insts : StartKeep(i)
  \/ \E i \in Insts : StartDeferredClose(i)
  \/ \E i \in Insts : StartReturn(i)

\* no PhilosophersSync and no semaphore harness run
EngineOff ==
  /\ numPhils = 0
  /\ states = <<>>
  /\ m = Free
  /\ semV = <<>>
  /\ semWaiters = <<>>
  /\ pc = <<>>
  /\ immediate = <<>>
  /\ blockers = <<>>
  /\ monPc = "off"
  /\ st = <<>>
  /\ script = <<>>
  /\ ip = <<>>
  /\ ctorArg = 0
  /\ relSinceAcq = FALSE

\* up to MaxStarts calls of StartLeaderElectionAsync, each with or without a
\* client in its Config.  Nothing exists yet: no key, no session (no lease,
\* no keep-alive running), no goroutine, no LeaderElection to call Close() on
StartInit ==
  \E n \in 1 .. MaxStarts :
    /\ configClient \in [1 .. n -> BOOLEAN]
    /\ startPc = [i \in 1 .. n |-> "call"]
    /\ toClose = [i \in 1 .. n |-> <<>>]
    /\ earlierKeys = [i \in 1 .. n |-> {}]
    /\ liveKeys = {}
    /\ leaseAlive = [i \in 1 .. n |-> FALSE]
    /\ sessionDone = [i \in 1 .. n |-> TRUE]
    /\ leaderSession = [i \in 1 .. n |-> FALSE]
    /\ isClosed = [i \in 1 .. n |-> FALSE]
    /\ campaignCancelled = [i \in 1 .. n |-> FALSE]
    /\ dontCloseEtcdClient = [i \in 1 .. n |-> TRUE]
    /\ clientClosed = [i \in 1 .. n |-> FALSE]
    /\ BecomeLeaderCh = [i \in 1 .. n |-> 0]
    /\ AnyErrorCh = [i \in 1 .. n |-> 0]
    /\ gopc = [i \in 1 .. n |-> "unstarted"]
    /\ closePc = [c \in (1 .. n) \X {1} |-> "unstarted"]
    /\ EngineOff

StartSpec == StartInit /\ [][StartNext \/ ElectionNext]_vars

-----------------------------------------------------------------------------
(* Claims *)

\* actors i and j are distinct and next to each other on the ring
Adjacent(i, j) == i # j /\ (j = Right(i) \/ j = Left(i))

\* actor i is past the return of takeForks(i) and before putForks(i)
Using(i) == pc[i] = "eat"

\* C1: no two distinct ring-adjacent actors are at the same time between the
\* return of their own takeForks and the start of their own putForks.
C1_MutualExclusion ==
  \A i \in Phils : \A j \in Phils :
    Adjacent(i, j) => ~(Using(i) /\ Using(j))

\* C2: whenever a call of takeForks(i) returns, states_[i] is EATING.
C2_ReturnsEating ==
  [][\A i \in Phils :
       (pc[i] \in {"acq", "acq_woken"} /\ pc'[i] = "eat")
         => states'[i] = EATING]_vars

\* C3: every vector getStates returns has no two distinct ring-adjacent
\* entries that are both EATING.
C3_SnapshotIndependent ==
  st # <<>> =>
    \A i \in Phils : \A j \in Phils :
      Adjacent(i, j) => ~(st[i] = EATING /\ st[j] = EATING)

\* a snapshot of a ring of three or more with an EATING entry next to a
\* HUNGRY one
C3_Witness ==
  /\ monPc = "return"
  /\ numPhils >= 3
  /\ \E i \in Phils : st[i] = EATING /\ st[Right(i)] = HUNGRY

\* C4 as stated: for every ring size n >= 1 and every i,
\* not (states_[i] = EATING and states_[(i+1) mod n] = EATING).
C4_AsStated ==
  \A i \in Phils : ~(states[i] = EATING /\ states[Right(i)] = EATING)

\* C4 as amended: for every ring size n >= 1 and every i whose successor
\* (i+1) mod n is another actor, not both are EATING.
C4_AdjacencyExclusion ==
  \A i \in Phils :
    Right(i) # i => ~(states[i] = EATING /\ states[Right(i)] = EATING)

\* the ring of two, one actor EATING and the other HUNGRY
C4_Witness ==
  /\ numPhils = 2
  /\ \E i \in Phils : states[i] = EATING /\ states[Right(i)] = HUNGRY

\* C6: whenever acquire() returns, by either path, it leaves v_ = 0.
C6_AcquireLeavesUnavailable ==
  [][\A t \in GateThreads :
       (pc[t] \in {"acq", "acq_woken"} /\ pc'[t] = "next")
         => semV'[Gate] = 0]_vars

\* thread t is the only one whose script calls acquire()
OnlyAcquirer(t) ==
  \A u \in GateThreads \ {t} :
    \A k \in 1 .. Len(script[u]) : script[u][k] = "release"

\* the call of thread t that is k calls before the one at index ip[t]
Earlier(t, k) ==
  IF ip[t] - k >= 1 /\ ip[t] - k <= Len(script[t])
    THEN script[t][ip[t] - k] ELSE "none"

\* thread t is in acquire() and takes a step of it
AcquireStepOf(t) == pc[t] \in {"acq", "acq_woken"} /\ pc'[t] # pc[t]

\* C7: after two consecutive release() calls with no acquire in between the
\* value is available (one permit, not two); the acquire() called next returns
\* at once and takes the permit; the acquire() called after that blocks, and
\* returns only after another release().
C7_IdempotentRelease ==
  [][\A t \in GateThreads : OnlyAcquirer(t) =>
       /\ (pc[t] = "next" /\ Earlier(t, 1) = "release"
             /\ Earlier(t, 2) = "release")
            => semV[Gate] = 1
       /\ (pc[t] = "acq" /\ AcquireStepOf(t) /\ Earlier(t, 1) = "release"
             /\ Earlier(t, 2) = "release")
            => (pc'[t] = "next" /\ semV'[Gate] = 0)
       /\ (AcquireStepOf(t) /\ Earlier(t, 1) = "acquire"
             /\ Earlier(t, 2) = "release" /\ Earlier(t, 3) = "release")
            => IF relSinceAcq THEN pc'[t] = "next" ELSE pc'[t] = "acq_wait"
     ]_vars

\* after release, release, acquire the second acquire of the same thread is
\* blocked on an unavailable gate
C7_Witness ==
  \E t \in GateThreads :
    /\ script[t] = <<"release", "release", "acquire", "acquire">>
    /\ OnlyAcquirer(t)
    /\ ip[t] = 4
    /\ pc[t] = "acq_wait"
    /\ semV[Gate] = 0

\* the test's setting: the gate starts unavailable, thread a only calls
\* acquire() once and thread r only calls release() once
OneAcquireOneRelease(a, r) ==
  /\ a # r
  /\ ctorArg = 0
  /\ script[a] = <<"acquire">>
  /\ script[r] = <<"release">>

\* release() of thread r has set v_
HasReleased(r) == pc[r] = "rel_notify" \/ Returned(r) >= 1

\* C8: with the gate initially unavailable, one thread calling acquire() and
\* another calling release(), in every interleaving the acquire() returns,
\* and it returns only after the release() has set the value.
C8_NoLostWakeup ==
  \A a \in GateThreads : \A r \in GateThreads :
    /\ [](OneAcquireOneRelease(a, r) /\ Returned(a) = 1 => HasReleased(r))
    /\ (OneAcquireOneRelease(a, r) ~> Returned(a) = 1)

\* the acquirer blocked before the release and has been woken by its notify
C8_Witness ==
  \E a \in GateThreads : \E r \in GateThreads :
    /\ OneAcquireOneRelease(a, r)
    /\ pc[a] = "acq_woken"
    /\ Returned(r) = 1

\* actor i is inside the acquire() of takeForks(i), which has not returned
InAcquire(i) == pc[i] \in {"acq", "acq_wait", "acq_woken"}

\* actor i is inside takeForks(i) behind the critical section while neither
\* of its neighbours is EATING
WaitsWithIdleNeighbours(i) ==
  /\ i \in Phils
  /\ InAcquire(i)
  /\ states[Left(i)] # EATING
  /\ states[Right(i)] # EATING

\* every actor thread is blocked in the wait of its semaphore
AllBlocked == \A i \in Phils : pc[i] = "acq_wait"

\* C5: under fair scheduling, with every actor that uses its forks calling
\* putForks, no actor stays inside takeForks forever while neither of its
\* neighbours is EATING, and never is every thread blocked.
C5_DeadlockFree ==
  /\ []~AllBlocked
  /\ \A i \in 0 .. (LiveN - 1) : []<>~WaitsWithIdleNeighbours(i)

\* an actor is blocked in takeForks next to an EATING neighbour
C5_Witness ==
  /\ numPhils >= 2
  /\ \E i \in Phils :
       /\ pc[i] = "acq_wait"
       /\ states[i] = HUNGRY
       /\ states[Left(i)] = EATING

\* the step in which takeForks(i) calls tryToEat(i)
OwnTryStep(i) == pc[i] = "tf_try" /\ pc'[i] # "tf_try"

\* the step in which takeForks(i) returns
ReturnStep(i) == InAcquire(i) /\ pc'[i] = "eat"

\* C9: a takeForks(i) that evaluates tryToEat(i) while neither neighbour of i
\* is EATING sets states_[i] = EATING in that step, leaves every other entry
\* alone, never waits in acquire(), and returns with states_[i] = EATING.
C9_ImmediatePromotion ==
  [][\A i \in Phils :
       /\ (OwnTryStep(i) /\ states[Left(i)] # EATING
             /\ states[Right(i)] # EATING)
            => (states' = [states EXCEPT ![i] = EATING] /\ immediate'[i])
       /\ immediate'[i] =>
            /\ pc'[i] \notin {"acq_wait", "acq_woken"}
            /\ states'[i] = EATING
            /\ pc'[i] = "acq" => semV'[i] = 1
       /\ (immediate[i] /\ pc[i] = "acq" /\ pc'[i] # "acq") => pc'[i] = "eat"
     ]_vars

\* the spec's example: ring of three, actor 0 back from takeForks(0)
C9_Witness ==
  /\ numPhils = 3
  /\ pc[0] = "eat"
  /\ states = [i \in Phils |-> IF i = 0 THEN EATING ELSE THINKING]
  /\ semV[0] = 0

\* C10: a takeForks(i) that found a neighbour j EATING does not return while j
\* is still EATING; when putForks(j) evaluates i and i's other neighbour is not
\* EATING, it has set states_[j] = THINKING, sets states_[i] = EATING and
\* wakes i, whose takeForks(i) then is not left waiting.
C10_BlockedThenReleased ==
  [][\A i \in Phils :
       /\ ReturnStep(i) => blockers[i] = {}
       /\ \A j \in Phils :
            /\ ( /\ HUNGRY = states[i]
                 /\ \/ pc[j] = "pf_try1" /\ pc'[j] # "pf_try1"
                          /\ i = Right(j) /\ states[Right(i)] # EATING
                    \/ pc[j] = "pf_try2" /\ pc'[j] # "pf_try2"
                          /\ i = Left(j) /\ states[Left(i)] # EATING )
                 => (states'[i] = EATING /\ (i # j => states'[j] = THINKING))
            /\ ( \/ pc[j] = "pf_notify1" /\ pc'[j] # "pf_notify1"
                      /\ i = Right(j)
                 \/ pc[j] = "pf_notify2" /\ pc'[j] # "pf_notify2"
                      /\ i = Left(j) )
                 => pc'[i] # "acq_wait"
     ]_vars

\* the constructor has returned an engine
EngineBuilt == monPc # "ctor" /\ script = <<>>

\* C11: constructing an engine with n < 1 fails and creates no engine; only
\* n >= 1 yields an engine.
C11_ConstructionRejectsZero == EngineBuilt => numPhils >= 1

\* C12: a takeForks(i) called while states_[i] is HUNGRY or EATING, and a
\* putForks(i) called while states_[i] is not EATING, end in a fault and leave
\* the state vector and every semaphore as they were.
C12_CheckedFaults ==
  [][\A i \in Phils :
       /\ (pc[i] = "tf_hungry" /\ pc'[i] # "tf_hungry"
             /\ states[i] \in {HUNGRY, EATING})
            => (pc'[i] = "fault" /\ states' = states /\ semV' = semV)
       /\ (pc[i] = "pf_think" /\ pc'[i] # "pf_think" /\ states[i] # EATING)
            => (pc'[i] = "fault" /\ states' = states /\ semV' = semV)
     ]_vars

\* thread i is inside the critical section of takeForks(i) or putForks(i)
InCritical(i) ==
  pc[i] \in {"tf_hungry", "tf_try", "tf_rel", "tf_notify", "tf_unlock",
             "pf_think", "pf_try1", "pf_rel1", "pf_notify1", "pf_try2",
             "pf_rel2", "pf_notify2", "pf_unlock"}

\* C13: the vector getStates returns has exactly numPhils_ entries, each a
\* State, and equals states_ at an instant at which no thread is inside a
\* critical section of takeForks or putForks; the steps of getStates leave
\* states_ and every semaphore as they were.
C13_SnapshotAtomic ==
  /\ [](monPc = "return" =>
          /\ DOMAIN st = Phils
          /\ \A i \in Phils : st[i] \in State
          /\ st = states
          /\ \A i \in Phils : ~InCritical(i))
  /\ [][monPc' # monPc =>
          (states' = states /\ semV' = semV /\ semWaiters' = semWaiters)]_vars

\* a snapshot that holds all three values
C13_Witness ==
  /\ monPc = "return"
  /\ {st[i] : i \in Phils} = State
  /\ \E i \in Phils : pc[i] = "acq_wait"

\* instance i has been signalled on its BecomeLeaderCh
Signalled(i) == BecomeLeaderCh[i] >= 1

\* the session of instance i has ended: its lease is gone or its Done
\* channel is closed
SessionLost(i) == ~leaseAlive[i] \/ sessionDone[i]

\* instance i is a signalled leader that is neither closed nor without session
Leads(i) == Signalled(i) /\ ~isClosed[i] /\ ~SessionLost(i)

\* C14: at any time at most one instance has been signalled on BecomeLeaderCh
\* and is neither closed nor without its session; when none is closed, every
\* session is alive and no campaign goroutine can take a step, exactly one
\* instance has been signalled.
C14_SingleLeader ==
  /\ Cardinality({i \in Insts : Leads(i)}) <= 1
  /\ (/\ Insts # {}
      /\ \A i \in Insts : ~isClosed[i] /\ ~SessionLost(i)
      /\ ~ENABLED CampaignNext)
       => Cardinality({i \in Insts : Signalled(i)}) = 1

\* two instances have campaigned: one leads, the other waits in Campaign
C14_Witness ==
  /\ Cardinality(Insts) >= 2
  /\ \A i \in Insts : ~isClosed[i] /\ ~SessionLost(i)
  /\ \E i \in Insts : Leads(i)
  /\ \E i \in Insts : gopc[i] = "waiting" /\ i \in liveKeys

\* C15: once Close() has been called on an instance, or its session has
\* ended, an error is eventually sent on its AnyErrorCh.
C15_LossNotified ==
  \A i \in 1 .. MaxInst :
    (i \in Insts /\ (isClosed[i] \/ SessionLost(i)))
      ~> (i \in Insts /\ AnyErrorCh[i] >= 1)

\* C16: the goroutine of an instance is never at a send with the buffer full
\* (at most one value is sent on each channel); an instance that got an error
\* before it was signalled is never signalled afterwards; and a signalled
\* instance gets an error only when it is closed or its session has ended.
C16_ChannelProtocol ==
  /\ [](\A i \in Insts :
          /\ gopc[i] = "send_leader" => BecomeLeaderCh[i] < ChanCap
          /\ gopc[i] \in {"send_lost", "send_err"} => AnyErrorCh[i] < ChanCap
          /\ (Signalled(i) /\ AnyErrorCh[i] >= 1)
               => (isClosed[i] \/ SessionLost(i)))
  /\ [][\A i \in Insts :
          /\ (AnyErrorCh[i] >= 1 /\ ~Signalled(i)) => ~Signalled(i)'
          /\ (Signalled(i) /\ AnyErrorCh'[i] > AnyErrorCh[i])
               => (isClosed[i] \/ SessionLost(i))]_vars

\* a leader whose lease expired has got its error while the next instance
\* leads
C16_Witness ==
  \E i \in Insts : \E j \in Insts :
    /\ Signalled(i) /\ AnyErrorCh[i] = 1 /\ ~isClosed[i]
    /\ Leads(j)

\* the threads that went on into Close() on instance i after the Swap
ClosingThreads(i) ==
  {c \in Closers : InstOf(c) = i /\ closePc[c] \notin {"call", "already"}}

\* C17: over any number of Close() calls on one instance, one caller (the
\* first at the Swap) runs the cancel, resign, close-session, close-client
\* sequence, and every other call returns without any of these steps.
C17_CloseOnce ==
  \A i \in Insts :
    /\ Cardinality(ClosingThreads(i)) <= 1
    /\ (\E c \in Closers : InstOf(c) = i /\ closePc[c] # "call")
         => Cardinality(ClosingThreads(i)) = 1
    /\ isClosed[i] <=>
         (\E c \in Closers : InstOf(c) = i /\ closePc[c] # "call")
    /\ (ClosingThreads(i) = {}) =>
         (~campaignCancelled[i] /\ ~clientClosed[i])

\* one Close() has run to its end and closed the client, a second has found
\* the instance already closed
C17_Witness ==
  \E c \in Closers : \E d \in Closers :
    /\ InstOf(c) = InstOf(d)
    /\ closePc[c] = "closed"
    /\ closePc[d] = "already"
    /\ clientClosed[InstOf(c)]

\* C18: under fair scheduling, with every actor that uses its forks calling
\* putForks, every actor that calls takeForks (becomes HUNGRY) eventually
\* becomes EATING and returns from takeForks.
C18_StarvationFree ==
  \A i \in 0 .. (StarveN - 1) :
    (i \in Phils /\ states[i] = HUNGRY)
      ~> (i \in Phils /\ states[i] = EATING /\ pc[i] = "eat")

\* C19: no thread that is in (or about to enter) the wait of acquire() holds
\* m_; m_ is held only for bounded critical sections: it is free again and
\* again, so under fair scheduling a thread waiting for it does not wait for
\* ever: an actor leaves its wait for m_ at the head of putForks, and the
\* monitor its wait in getStates, and they leave it holding m_.
C19_NoLockHeldBlocking ==
  /\ [](\A i \in Phils : InAcquire(i) => m # ByPhil(i))
  /\ []<>(m = Free)
  /\ \A i \in 0 .. (LockN - 1) : []<>(i \in Phils => pc[i] # "eat")
  /\ []<>(monPc # "poll")
  /\ [][/\ \A i \in Phils :
            (pc[i] = "eat" /\ pc'[i] # "eat") =>
              (pc'[i] = "pf_think" /\ m' = ByPhil(i))
        /\ (monPc = "poll" /\ monPc' # "poll") =>
              (monPc' = "copy" /\ m' = ByMonitor)]_vars

\* an actor is blocked in acquire() while a neighbour holds m_ in putForks
\* and the monitor waits for m_
C19_Witness ==
  /\ monPc = "poll"
  /\ \E i \in Phils :
       /\ pc[i] = "acq_wait"
       /\ m = ByPhil(Left(i))
       /\ pc[Left(i)] = "pf_think"

\* C20: under the driver loop the state of each actor changes only along
\* THINKING -> HUNGRY -> EATING -> THINKING; states_[i] is EATING when actor i
\* enters putForks(i); no HUNGRY -> THINKING change occurs.
C20_StateCycle ==
  [][\A i \in Phils :
       /\ states'[i] # states[i] =>
            <<states[i], states'[i]>> \in
              {<<THINKING, HUNGRY>>, <<HUNGRY, EATING>>, <<EATING, THINKING>>}
       /\ (pc[i] = "eat" /\ pc'[i] = "pf_think") => states[i] = EATING
     ]_vars

\* the positions between the assignment of EATING in tryToEat and the return
\* of the release() it calls
ReleasePcs == {"tf_rel", "pf_rel1", "pf_rel2"}
NotifyPcs == {"tf_notify", "pf_notify1", "pf_notify2"}

\* the actor whose gate thread t releases at position p
ReleaseTarget(t, p) ==
  CASE p \in {"tf_rel", "tf_notify"} -> t
    [] p \in {"pf_rel1", "pf_notify1"} -> FirstNeighbour(t)
    [] p \in {"pf_rel2", "pf_notify2"} -> SecondNeighbour(t)

\* thread t promotes actor i in this step
Promotes(t, i) ==
  /\ pc[t] \in {"tf_try", "pf_try1", "pf_try2"}
  /\ pc'[t] \in ReleasePcs
  /\ ReleaseTarget(t, pc'[t]) = i

\* states_[i] becomes EATING only in tryToEat(i), from HUNGRY, under m_
EatingOnlyByPromotion ==
  \A i \in Phils :
    (states'[i] = EATING /\ states[i] # EATING) =>
      /\ states[i] = HUNGRY
      /\ states[Left(i)] # EATING
      /\ states[Right(i)] # EATING
      /\ \E t \in Phils : m = ByPhil(t) /\ m' = m /\ Promotes(t, i)
      /\ \A j \in Phils \ {i} : states'[j] = states[j]

\* a release() is entered only from a promotion of its gate's actor, sets
\* that gate and wakes only its waiters, and is not repeated
OneReleasePerPromotion ==
  \A t \in Phils :
    /\ (pc'[t] \in ReleasePcs /\ pc[t] \notin ReleasePcs) =>
         /\ m = ByPhil(t)
         /\ states[ReleaseTarget(t, pc'[t])] = HUNGRY
         /\ states'[ReleaseTarget(t, pc'[t])] = EATING
    /\ (pc[t] \in ReleasePcs /\ pc'[t] # pc[t]) =>
         /\ pc'[t] \in NotifyPcs
         /\ ReleaseTarget(t, pc'[t]) = ReleaseTarget(t, pc[t])
         /\ semV'[ReleaseTarget(t, pc[t])] = 1
         /\ states[ReleaseTarget(t, pc[t])] = EATING
         /\ \A g \in Phils \ {ReleaseTarget(t, pc[t])} : semV'[g] = semV[g]
    /\ (pc[t] \in NotifyPcs /\ pc'[t] # pc[t]) =>
         /\ pc'[t] \notin ReleasePcs \cup NotifyPcs
         /\ \A g \in Phils \ {ReleaseTarget(t, pc[t])} :
              semWaiters'[g] = semWaiters[g]

\* v_ of a gate is raised only by a release() that follows a promotion
NoReleaseWithoutPromotion ==
  \A g \in Phils :
    semV'[g] > semV[g] =>
      \E t \in Phils : pc[t] \in ReleasePcs /\ ReleaseTarget(t, pc[t]) = g

\* C21: states_[i] becomes EATING only in tryToEat(i), from HUNGRY with no
\* neighbour EATING, under m_; each such step is followed by one release() of
\* gate i by the same thread, which changes no other gate and wakes no waiter
\* of another gate; no release() of gate i starts without such a step (a
\* putForks in a ring of two, which evaluates one neighbour twice, included).
C21_PromotionOnly ==
  [][EatingOnlyByPromotion /\ OneReleasePerPromotion
       /\ NoReleaseWithoutPromotion]_vars

\* ring of two: putForks(t) has promoted and released its one neighbour in
\* the first evaluation and is about to evaluate the same neighbour again
C21_Witness ==
  /\ numPhils = 2
  /\ \E t \in Phils :
       /\ pc[t] = "pf_try2"
       /\ FirstNeighbour(t) = SecondNeighbour(t)
       /\ states[SecondNeighbour(t)] = EATING
       /\ semV[SecondNeighbour(t)] = 1

\* no two distinct ring-adjacent entries of s are EATING
Exclusive(s) ==
  \A i \in Phils : (s[i] = EATING /\ Right(i) # i) => s[Right(i)] # EATING

\* putForks(i) holds m_ and is about to assign states_[i]; both neighbours
\* are HUNGRY and each is eligible once states_[i] is THINKING
BothEligible(i) ==
  /\ pc[i] = "pf_think"
  /\ CanEat([states EXCEPT ![i] = THINKING], Right(i))
  /\ CanEat([states EXCEPT ![i] = THINKING], Left(i))

\* the steps of putForks(i) under m_ change states_ as PutForksStates composes
\* them, and nothing else changes states_ meanwhile
PutForksStepwise ==
  \A i \in Phils :
    /\ (pc[i] = "pf_think" /\ pc'[i] # pc[i]) =>
         states' = [states EXCEPT ![i] = THINKING] /\ pc'[i] = "pf_try1"
    /\ (pc[i] = "pf_try1" /\ pc'[i] # pc[i]) =>
         /\ states' = PromoteIn(states, Right(i))
         /\ pc'[i] \in {"pf_rel1", "pf_try2"}
    /\ (pc[i] = "pf_try2" /\ pc'[i] # pc[i]) =>
         /\ states' = PromoteIn(states, Left(i))
         /\ pc'[i] \in {"pf_rel2", "pf_unlock"}
    /\ (pc[i] = "pf_rel1" /\ pc'[i] # pc[i]) => pc'[i] = "pf_notify1"
    /\ (pc[i] = "pf_notify1" /\ pc'[i] # pc[i]) => pc'[i] = "pf_try2"
    /\ (pc[i] = "pf_rel2" /\ pc'[i] # pc[i]) => pc'[i] = "pf_notify2"
    /\ (pc[i] = "pf_notify2" /\ pc'[i] # pc[i]) => pc'[i] = "pf_unlock"
    /\ pc[i] \in {"pf_think", "pf_try1", "pf_rel1", "pf_notify1", "pf_try2",
                  "pf_rel2", "pf_notify2", "pf_unlock"} =>
         /\ m = ByPhil(i)
         /\ pc'[i] = pc[i] => states' = states

\* C22: when putForks(i) runs with both neighbours HUNGRY and each eligible
\* once states_[i] is THINKING, it leaves (i+1) mod n EATING; it leaves
\* (i+n-1) mod n EATING exactly if that actor is not ring-adjacent to
\* (i+1) mod n (always for n >= 4) and HUNGRY if it is (n = 3); evaluated in
\* either order of the neighbours, the call leaves no two distinct
\* ring-adjacent actors EATING.
C22_TieBreak ==
  /\ [](\A i \in Phils :
         /\ BothEligible(i) =>
              LET res == PutForksStates(states, i, FirstNeighbour(i),
                                        SecondNeighbour(i))
              IN  /\ res[Right(i)] = EATING
                  /\ res[Left(i)] = EATING <=> ~Adjacent(Left(i), Right(i))
                  /\ res[Left(i)] \in {EATING, HUNGRY}
                  /\ numPhils >= 4 => res[Left(i)] = EATING
                  /\ numPhils = 3 => res[Left(i)] = HUNGRY
         /\ (pc[i] = "pf_think" /\ Exclusive(states)) =>
              /\ Exclusive(PutForksStates(states, i, Right(i), Left(i)))
              /\ Exclusive(PutForksStates(states, i, Left(i), Right(i)))
         /\ pc[i] = "pf_unlock" => Exclusive(states))
  /\ [][PutForksStepwise]_vars

\* ring of three: putForks(i) found both neighbours HUNGRY, has promoted and
\* woken (i+1) mod n and leaves (i+n-1) mod n HUNGRY and waiting
C22_Witness ==
  /\ numPhils = 3
  /\ \E i \in Phils :
       /\ pc[i] = "pf_unlock"
       /\ states[Right(i)] = EATING
       /\ pc[Right(i)] = "acq_woken"
       /\ states[Left(i)] = HUNGRY
       /\ pc[Left(i)] = "acq_wait"

\* every HUNGRY entry of s has an EATING neighbour
HungryIsBlocked(s) ==
  \A i \in Phils :
    s[i] = HUNGRY => (s[Left(i)] = EATING \/ s[Right(i)] = EATING)

\* C23: whenever m_ is free every HUNGRY actor has an EATING neighbour, and
\* so does every HUNGRY entry of a vector getStates returned.
C23_HungryHasEatingNeighbour ==
  /\ m = Free => HungryIsBlocked(states)
  /\ st # <<>> => HungryIsBlocked(st)
  /\ monPc = "copy" => HungryIsBlocked(states)

\* getStates has copied states_ (it found m_ free) while an actor is HUNGRY
\* and waits in acquire() behind an EATING neighbour
C23_Witness ==
  /\ monPc = "return"
  /\ \E i \in Phils :
       /\ st[i] = HUNGRY
       /\ pc[i] = "acq_wait"
       /\ st[Left(i)] = EATING \/ st[Right(i)] = EATING

\* C24: a client the caller supplied in Config.EtcdClient is never closed by
\* the library, neither by Close() nor by the deferred cleanup of
\* StartLeaderElectionAsync; and when StartLeaderElectionAsync succeeds the
\* deferred cleanup has nothing to close.
C24_CallerClientNotClosed ==
  \A i \in Insts :
    /\ configClient[i] => ~clientClosed[i]
    /\ startPc[i] = "return_ok" => toClose[i] = <<>>

=============================================================================
